---------------------------- MODULE Spec2Model ----------------------------
(***************************************************************************)
(* Model of wal_e/worker/upload.py: the single-destination WAL uploader    *)
(* (WalUploader), the dual-destination WAL uploader (WalDualUploader with  *)
(* its WalNfsThread) and the base-backup partition uploader                *)
(* (PartitionUploader with its retried PUT of a spill file).               *)
(***************************************************************************)
EXTENDS Integers, Sequences, FiniteSets, TLC

(***************************************************************************)
(* Bounds of the model                                                     *)
(***************************************************************************)
\* number of WalDualUploader calls that may be in flight together
NumCalls == 2
\* largest number of PUT attempts of one PartitionUploader call
MaxAttempts == 3
\* largest number of bytes the pipeline leaves in the spill file
MaxSpill == 2

(***************************************************************************)
(* Program constants and value domains                                     *)
(***************************************************************************)
\* errno.EEXIST, the "already exists" return code of the push function
EEXIST == 17

Calls == 1..NumCalls

\* what nfs_uploader.upload_to_nfs can hand back to WalNfsThread.run
RetCodes == {0, 1, EEXIST}

\* errors deriving from Exception that upload_to_blobstore can raise
Exceptions == {"IOError", "S3ResponseError"}
\* errors that do not derive from Exception (Python 2: they derive from
\* BaseException only) that can come out of upload_to_blobstore
BaseExceptions == {"KeyboardInterrupt"}
\* the error synthesized at line 89: Exception('failed to upload .. to gluster')
GlusterError == "Exception:failed to upload to gluster"

NoExc == "None"

VARIABLES
    \* ---- WalDualUploader.__call__, one entry per call ----
    mpc,            \* position of the calling thread in __call__
    tpc,            \* position of the WalNfsThread of the call
    success,        \* local `success` (line 74, 78)
    ex,             \* local `ex` (line 75, 80, 89)
    instHas,        \* whether the thread object has its own `success` attribute
    instVal,        \* the value of that instance attribute
    clsSuccess,     \* the class attribute WalNfsThread.success (line 104)
    outKind,        \* "none" | "returned" | "raised": how the call ended
    outExc,         \* the exception the call raised to its caller
    dlog,           \* the messages the call logged, in order
    primaryCalls,   \* how often upload_to_blobstore was invoked by the call
    secondaryCalls, \* how often the push function was invoked for the call
    primOutcome,    \* how upload_to_blobstore ended ("ok" or the error raised)
    secOutcome,     \* how the push function ended (a return code or a raise)
    joined,         \* whether nfsThread.join() has returned in the call
    \* ---- PartitionUploader.__call__, one call ----
    ppc,            \* position in __call__
    tfState,        \* the spill file tf: "none" | "open" | "closed"
    plState,        \* the pipeline pl: "none" | "open" | "closed"
    tarLen,         \* bytes the partition's tar write handed to pl.stdin
    spill,          \* the content of the spill file
    tfPos,          \* the read/write position of the spill file
    drained,        \* whether all pipeline stages have drained into tf
    flushed,        \* whether tf.flush() (line 140) has run
    attempts,       \* calls of blobstore.uri_put_file made so far
    putStartPos,    \* position of tf at the start of each of those calls
    errs,           \* the failed attempts: the error raised, tf's position then
    retryCxt,       \* exc_processor_cxt, the running count of the retry loop
    uploaded,       \* what the successful PUT read from tf and sent
    pend,           \* the exception propagating out of the call, if any
    pOutKind,       \* "none" | "returned" | "raised"
    pOutExc,        \* the exception the call raised to its caller
    plog,           \* the messages the call logged, in order
    \* ---- WalUploader, one uploader and one call of it ----
    wpc,            \* position: "new" | "ready" | "begun" | "transfer" | "done"
    wEntry,         \* how the uploader was invoked: __call__ or upload_to_blobstore
    wPrefix,        \* self.layout.prefix, a string as a sequence of characters
    wName,          \* segment.name
    wUrl,           \* the local `url` (lines 35-37)
    wlog,           \* the structured events logged, in order
    wTransfers,     \* how often do_lzop_put was called
    wRate,          \* what do_lzop_put returned (kib_per_second)
    wTransferExc,   \* what do_lzop_put raised
    wOutKind,       \* "none" | "returned" | "raised"
    wRet,           \* the value the call returned
    wExc,           \* the exception the call raised
    \* ---- the url of PartitionUploader.__call__ ----
    kpc,            \* "new" | "ready" | "computed"
    kPrefix,        \* self.backup_prefix
    kOrdinal,       \* tpart.name
    kUrl            \* the local `url` (lines 143-144)

dualVars == <<mpc, tpc, success, ex, instHas, instVal, clsSuccess, outKind,
              outExc, dlog, primaryCalls, secondaryCalls, primOutcome,
              secOutcome, joined>>

partVars == <<ppc, tfState, plState, tarLen, spill, tfPos, drained, flushed,
              attempts, putStartPos, errs, retryCxt, uploaded, pend, pOutKind,
              pOutExc, plog>>

walVars == <<wpc, wEntry, wPrefix, wName, wUrl, wlog, wTransfers, wRate,
             wTransferExc, wOutKind, wRet, wExc>>

keyVars == <<kpc, kPrefix, kOrdinal, kUrl>>

vars == <<dualVars, partVars, walVars, keyVars>>

NoOutcome == [kind |-> "none", rc |-> 0]

InitDual ==
    /\ mpc = [c \in Calls |-> "idle"]
    /\ tpc = [c \in Calls |-> "new"]
    /\ success = [c \in Calls |-> FALSE]
    /\ ex = [c \in Calls |-> NoExc]
    /\ instHas = [c \in Calls |-> FALSE]
    /\ instVal = [c \in Calls |-> FALSE]
    /\ clsSuccess = FALSE
    /\ outKind = [c \in Calls |-> "none"]
    /\ outExc = [c \in Calls |-> NoExc]
    /\ dlog = [c \in Calls |-> <<>>]
    /\ primaryCalls = [c \in Calls |-> 0]
    /\ secondaryCalls = [c \in Calls |-> 0]
    /\ primOutcome = [c \in Calls |-> "none"]
    /\ secOutcome = [c \in Calls |-> NoOutcome]
    /\ joined = [c \in Calls |-> FALSE]

(***************************************************************************)
(* WalNfsThread                                                            *)
(***************************************************************************)
\* attribute lookup nfsThread.success: the instance attribute when run() set
\* one, the class attribute otherwise
NfsThreadSuccess(c) == IF instHas[c] THEN instVal[c] ELSE clsSuccess

\* run() maps only the return code 0 to success
RunMapsToSuccess_OnlyZero(rc) == rc = 0

\* line 113: the return codes run() maps to success
RunMapsToSuccess(rc) == rc = 0 \/ rc = EEXIST

\* line 111, first half: the thread's run() invokes the push function
NfsRunBegin(c) ==
    /\ UNCHANGED <<partVars, walVars, keyVars>>
    /\ tpc[c] = "started"
    /\ tpc' = [tpc EXCEPT ![c] = "running"]
    /\ secondaryCalls' = [secondaryCalls EXCEPT ![c] = @ + 1]
    /\ UNCHANGED <<mpc, success, ex, instHas, instVal, clsSuccess, outKind,
                   outExc, dlog, primaryCalls, primOutcome, secOutcome, joined>>

\* run() assigns the class attribute WalNfsThread.success, not self.success
NfsRunReturn_WritesClassAttribute(c, rc) ==
    /\ UNCHANGED <<partVars, walVars, keyVars>>
    /\ tpc[c] = "running"
    /\ tpc' = [tpc EXCEPT ![c] = "finished"]
    /\ secOutcome' = [secOutcome EXCEPT ![c] = [kind |-> "rc", rc |-> rc]]
    /\ clsSuccess' = IF RunMapsToSuccess(rc) THEN TRUE ELSE clsSuccess
    /\ UNCHANGED <<mpc, success, ex, instHas, instVal, outKind, outExc, dlog,
                   primaryCalls, secondaryCalls, primOutcome, joined>>

\* lines 111-114: the push function returns rc; run() sets self.success
NfsRunReturn(c, rc) ==
    /\ UNCHANGED <<partVars, walVars, keyVars>>
    /\ tpc[c] = "running"
    /\ tpc' = [tpc EXCEPT ![c] = "finished"]
    /\ secOutcome' = [secOutcome EXCEPT ![c] = [kind |-> "rc", rc |-> rc]]
    /\ IF RunMapsToSuccess(rc)
         THEN /\ instHas' = [instHas EXCEPT ![c] = TRUE]
              /\ instVal' = [instVal EXCEPT ![c] = TRUE]
         ELSE UNCHANGED <<instHas, instVal>>
    /\ UNCHANGED <<mpc, success, ex, clsSuccess, outKind, outExc, dlog,
                   primaryCalls, secondaryCalls, primOutcome, joined>>

\* line 111: the push function raises; run() has no handler, so the thread
\* ends there with self.success never assigned
NfsRunRaise(c) ==
    /\ UNCHANGED <<partVars, walVars, keyVars>>
    /\ tpc[c] = "running"
    /\ tpc' = [tpc EXCEPT ![c] = "finished"]
    /\ secOutcome' = [secOutcome EXCEPT ![c] = [kind |-> "raise", rc |-> 0]]
    /\ UNCHANGED <<mpc, success, ex, instHas, instVal, clsSuccess, outKind,
                   outExc, dlog, primaryCalls, secondaryCalls, primOutcome,
                   joined>>

(***************************************************************************)
(* WalDualUploader.__call__                                                *)
(***************************************************************************)
\* lines 71-75: create and start the thread, success = False, ex = None
DualStart(c) ==
    /\ UNCHANGED <<partVars, walVars, keyVars>>
    /\ mpc[c] = "idle"
    /\ mpc' = [mpc EXCEPT ![c] = "primary"]
    /\ tpc' = [tpc EXCEPT ![c] = "started"]
    /\ success' = [success EXCEPT ![c] = FALSE]
    /\ ex' = [ex EXCEPT ![c] = NoExc]
    /\ UNCHANGED <<instHas, instVal, clsSuccess, outKind, outExc, dlog,
                   primaryCalls, secondaryCalls, primOutcome, secOutcome,
                   joined>>

\* the primary upload is attempted only after the thread has finished
PrimaryBegin_AfterSecondary(c) ==
    /\ UNCHANGED <<partVars, walVars, keyVars>>
    /\ mpc[c] = "primary"
    /\ tpc[c] = "finished"
    /\ mpc' = [mpc EXCEPT ![c] = "in_primary"]
    /\ primaryCalls' = [primaryCalls EXCEPT ![c] = @ + 1]
    /\ UNCHANGED <<tpc, success, ex, instHas, instVal, clsSuccess, outKind,
                   outExc, dlog, secondaryCalls, primOutcome, secOutcome,
                   joined>>

\* line 77: upload_to_blobstore is invoked
PrimaryBegin(c) ==
    /\ UNCHANGED <<partVars, walVars, keyVars>>
    /\ mpc[c] = "primary"
    /\ mpc' = [mpc EXCEPT ![c] = "in_primary"]
    /\ primaryCalls' = [primaryCalls EXCEPT ![c] = @ + 1]
    /\ UNCHANGED <<tpc, success, ex, instHas, instVal, clsSuccess, outKind,
                   outExc, dlog, secondaryCalls, primOutcome, secOutcome,
                   joined>>

\* lines 77-78: upload_to_blobstore returns
PrimaryReturn(c) ==
    /\ UNCHANGED <<partVars, walVars, keyVars>>
    /\ mpc[c] = "in_primary"
    /\ mpc' = [mpc EXCEPT ![c] = "join"]
    /\ success' = [success EXCEPT ![c] = TRUE]
    /\ primOutcome' = [primOutcome EXCEPT ![c] = "ok"]
    /\ UNCHANGED <<tpc, ex, instHas, instVal, clsSuccess, outKind, outExc,
                   dlog, primaryCalls, secondaryCalls, secOutcome, joined>>

\* line 79: the errors the handler `except Exception` catches
CaughtByHandler(e) == e \in Exceptions

\* lines 77, 79-82: upload_to_blobstore raises e; the handler keeps it in ex
\* and logs it, and anything the handler does not catch leaves __call__ at
\* once
PrimaryRaise(c, e) ==
    /\ UNCHANGED <<partVars, walVars, keyVars>>
    /\ mpc[c] = "in_primary"
    /\ primOutcome' = [primOutcome EXCEPT ![c] = e]
    /\ IF CaughtByHandler(e)
         THEN /\ mpc' = [mpc EXCEPT ![c] = "join"]
              /\ ex' = [ex EXCEPT ![c] = e]
              /\ dlog' = [dlog EXCEPT ![c] = Append(@, "error:blobstore")]
              /\ UNCHANGED <<outKind, outExc>>
         ELSE /\ mpc' = [mpc EXCEPT ![c] = "done"]
              /\ outKind' = [outKind EXCEPT ![c] = "raised"]
              /\ outExc' = [outExc EXCEPT ![c] = e]
              /\ UNCHANGED <<ex, dlog>>
    /\ UNCHANGED <<tpc, success, instHas, instVal, clsSuccess, primaryCalls,
                   secondaryCalls, secOutcome, joined>>

\* line 85: join() returns once the thread has finished
JoinReturns(c) == tpc[c] = "finished"

NfsJoin(c) ==
    /\ UNCHANGED <<partVars, walVars, keyVars>>
    /\ mpc[c] = "join"
    /\ JoinReturns(c)
    /\ mpc' = [mpc EXCEPT ![c] = "decide"]
    /\ joined' = [joined EXCEPT ![c] = TRUE]
    /\ UNCHANGED <<tpc, success, ex, instHas, instVal, clsSuccess, outKind,
                   outExc, dlog, primaryCalls, secondaryCalls, primOutcome,
                   secOutcome>>

\* the secondary's flag is looked at but a failure is not folded into ex
ExAfterSecondary_Dropped(e, nfsOk) == e

\* a secondary failure replaces the error captured from the primary
ExAfterSecondary_Overwrites(e, nfsOk) ==
    IF nfsOk = FALSE THEN GlusterError ELSE e

\* lines 86-89: the value of ex after the secondary's flag was looked at
ExAfterSecondary(e, nfsOk) ==
    IF nfsOk = FALSE /\ e = NoExc THEN GlusterError ELSE e

\* lines 86-95: what the call logs after the join
LogAfterJoin(ok, nfsOk) ==
    (IF nfsOk = FALSE THEN <<"error:gluster">> ELSE <<>>)
      \o <<IF ok /\ nfsOk THEN "info:push result True"
                          ELSE "info:push result False">>

\* lines 86-100: fold the secondary's flag into ex, log the result, then
\* raise ex or return the segment
Decide(c) ==
    /\ UNCHANGED <<partVars, walVars, keyVars>>
    /\ mpc[c] = "decide"
    /\ LET nfsOk == NfsThreadSuccess(c)
           e == ExAfterSecondary(ex[c], nfsOk)
       IN /\ ex' = [ex EXCEPT ![c] = e]
          /\ dlog' = [dlog EXCEPT ![c] = @ \o LogAfterJoin(success[c], nfsOk)]
          /\ IF e # NoExc
               THEN /\ outKind' = [outKind EXCEPT ![c] = "raised"]
                    /\ outExc' = [outExc EXCEPT ![c] = e]
               ELSE /\ outKind' = [outKind EXCEPT ![c] = "returned"]
                    /\ UNCHANGED outExc
    /\ mpc' = [mpc EXCEPT ![c] = "done"]
    /\ UNCHANGED <<tpc, success, instHas, instVal, clsSuccess, primaryCalls,
                   secondaryCalls, primOutcome, secOutcome, joined>>

NextDual ==
    \E c \in Calls :
        \/ DualStart(c)
        \/ PrimaryBegin(c)
        \/ PrimaryReturn(c)
        \/ \E e \in Exceptions \cup BaseExceptions : PrimaryRaise(c, e)
        \/ NfsJoin(c)
        \/ Decide(c)
        \/ NfsRunBegin(c)
        \/ \E rc \in RetCodes : NfsRunReturn(c, rc)
        \/ NfsRunRaise(c)

(***************************************************************************)
(* PartitionUploader.__call__                                              *)
(***************************************************************************)
NoErr == [typ |-> "None", code |-> ""]
\* what tpart.tarfile_write raises on an I/O failure in the middle of a write
TarWriteError == [typ |-> "IOError", code |-> "tarfile_write"]
\* what the pipeline raises when one of its stages ends abnormally
PipelineError == [typ |-> "PipelineError", code |-> ""]

\* the errors blobstore.uri_put_file can raise
PutErrors ==
    { [typ |-> "socket.error", code |-> ""],
      [typ |-> "socket.timeout", code |-> ""],
      [typ |-> "S3ResponseError", code |-> "RequestTimeTooSkewed"],
      [typ |-> "S3ResponseError", code |-> "AccessDenied"],
      [typ |-> "ValueError", code |-> ""] }

\* the bytes the pipeline makes of the first n bytes of the tar stream
Content(n) == [i \in 1..n |-> i]

InitPart ==
    /\ ppc = "idle"
    /\ tfState = "none"
    /\ plState = "none"
    /\ tarLen = 0
    /\ spill = <<>>
    /\ tfPos = 0
    /\ drained = FALSE
    /\ flushed = FALSE
    /\ attempts = 0
    /\ putStartPos = <<>>
    /\ errs = <<>>
    /\ retryCxt = 0
    /\ uploaded = <<>>
    /\ pend = NoErr
    /\ pOutKind = "none"
    /\ pOutExc = NoErr
    /\ plog = <<>>

\* lines 130-134: log, then open the scoped temporary spill file
OpenSpillFile ==
    /\ ppc = "idle"
    /\ ppc' = "enter_pl"
    /\ tfState' = "open"
    /\ plog' = Append(plog, [msg |-> "beginning volume compression", n |-> 0])
    /\ UNCHANGED <<plState, tarLen, spill, tfPos, drained, flushed, attempts,
                   putStartPos, errs, retryCxt, uploaded, pend, pOutKind,
                   pOutExc>>
    /\ UNCHANGED <<dualVars, walVars, keyVars>>

\* lines 135-137: open the scoped pipeline that writes into tf
PipelineEnter ==
    /\ ppc = "enter_pl"
    /\ ppc' = "tar_write"
    /\ plState' = "open"
    /\ UNCHANGED <<tfState, tarLen, spill, tfPos, drained, flushed, attempts,
                   putStartPos, errs, retryCxt, uploaded, pend, pOutKind,
                   pOutExc, plog>>
    /\ UNCHANGED <<dualVars, walVars, keyVars>>

\* line 138: tarfile_write(pl.stdin) returns after handing n bytes to the
\* pipeline, k of which the stages have already written into tf
TarfileWriteReturn(n, k) ==
    /\ ppc = "tar_write"
    /\ k <= n
    /\ ppc' = "pl_exit"
    /\ tarLen' = n
    /\ spill' = Content(k)
    /\ tfPos' = k
    /\ UNCHANGED <<tfState, plState, drained, flushed, attempts, putStartPos,
                   errs, retryCxt, uploaded, pend, pOutKind, pOutExc, plog>>
    /\ UNCHANGED <<dualVars, walVars, keyVars>>

\* line 138: tarfile_write raises in the middle of the write, after n bytes
\* went into the pipeline and k of them reached tf
TarfileWriteRaise(n, k) ==
    /\ ppc = "tar_write"
    /\ k <= n
    /\ ppc' = "pl_exit"
    /\ tarLen' = n
    /\ spill' = Content(k)
    /\ tfPos' = k
    /\ pend' = TarWriteError
    /\ UNCHANGED <<tfState, plState, drained, flushed, attempts, putStartPos,
                   errs, retryCxt, uploaded, pOutKind, pOutExc, plog>>
    /\ UNCHANGED <<dualVars, walVars, keyVars>>

\* the pipeline's scope exit: pipe descriptors closed, filter processes
\* waited for or terminated
PipelineRelease(st) == "closed"

\* lines 135-138, leaving the `with` of the pipeline without an exception:
\* the stages drain all they were given into tf; a stage that ended with a
\* non-zero exit fails the pipeline (stageFailed)
PipelineExit(stageFailed) ==
    /\ ppc = "pl_exit"
    /\ pend = NoErr
    /\ plState' = PipelineRelease(plState)
    /\ IF stageFailed
         THEN /\ pend' = PipelineError
              /\ ppc' = "tf_exit"
              /\ UNCHANGED <<spill, tfPos, drained>>
         ELSE /\ spill' = Content(tarLen)
              /\ tfPos' = tarLen
              /\ drained' = TRUE
              /\ ppc' = "flush"
              /\ UNCHANGED pend
    /\ UNCHANGED <<tfState, tarLen, flushed, attempts, putStartPos, errs,
                   retryCxt, uploaded, pOutKind, pOutExc, plog>>
    /\ UNCHANGED <<dualVars, walVars, keyVars>>

\* the error of tarfile_write is swallowed at the pipeline's scope exit and
\* the call goes on
PipelineExitOnError_Swallowed ==
    /\ ppc = "pl_exit"
    /\ pend # NoErr
    /\ plState' = PipelineRelease(plState)
    /\ pend' = NoErr
    /\ ppc' = "flush"
    /\ UNCHANGED <<tfState, tarLen, spill, tfPos, drained, flushed, attempts,
                   putStartPos, errs, retryCxt, uploaded, pOutKind, pOutExc,
                   plog>>
    /\ UNCHANGED <<dualVars, walVars, keyVars>>

\* lines 135-138, leaving the `with` of the pipeline because tarfile_write
\* raised: the pipeline is released and the error goes on
PipelineExitOnError ==
    /\ ppc = "pl_exit"
    /\ pend # NoErr
    /\ plState' = PipelineRelease(plState)
    /\ ppc' = "tf_exit"
    /\ UNCHANGED <<tfState, tarLen, spill, tfPos, drained, flushed, attempts,
                   putStartPos, errs, retryCxt, uploaded, pend, pOutKind,
                   pOutExc, plog>>
    /\ UNCHANGED <<dualVars, walVars, keyVars>>

\* tf.flush() is left out
Flush_Missing ==
    /\ ppc = "flush"
    /\ ppc' = "put"
    /\ plog' = Append(plog, [msg |-> "begin uploading a base backup volume",
                             n |-> 0])
    /\ UNCHANGED <<tfState, plState, tarLen, spill, tfPos, drained, flushed,
                   attempts, putStartPos, errs, retryCxt, uploaded, pend,
                   pOutKind, pOutExc>>
    /\ UNCHANGED <<dualVars, walVars, keyVars>>

\* lines 140-147: tf.flush(), compute the url, log the begin of the upload
Flush ==
    /\ ppc = "flush"
    /\ ppc' = "put"
    /\ flushed' = TRUE
    /\ plog' = Append(plog, [msg |-> "begin uploading a base backup volume",
                             n |-> 0])
    /\ UNCHANGED <<tfState, plState, tarLen, spill, tfPos, drained, attempts,
                   putStartPos, errs, retryCxt, uploaded, pend, pOutKind,
                   pOutExc>>
    /\ UNCHANGED <<dualVars, walVars, keyVars>>

\* the spill file is rewound once, before the first attempt only
SeekBeforePut_FirstAttemptOnly(pos, made) == IF made = 0 THEN 0 ELSE pos

\* line 182: tf.seek(0), run by put_file_helper on each of its calls; pos is
\* tf's position before, made the number of attempts made before
SeekBeforePut(pos, made) == 0

\* lines 181-183, 188: put_file_helper rewinds tf and calls uri_put_file
PutBegin ==
    /\ ppc = "put"
    /\ LET pos == SeekBeforePut(tfPos, attempts)
       IN /\ tfPos' = pos
          /\ putStartPos' = Append(putStartPos, pos)
    /\ attempts' = attempts + 1
    /\ ppc' = "in_put"
    /\ UNCHANGED <<tfState, plState, tarLen, spill, drained, flushed, errs,
                   retryCxt, uploaded, pend, pOutKind, pOutExc, plog>>
    /\ UNCHANGED <<dualVars, walVars, keyVars>>

\* what a reader gets from the spill file from position pos to its end
ReadToEnd(content, pos) == SubSeq(content, pos + 1, Len(content))

\* lines 183, 188-197: uri_put_file reads tf to its end, sends it and
\* returns the key; the call logs the finish
PutReturn ==
    /\ ppc = "in_put"
    /\ uploaded' = ReadToEnd(spill, tfPos)
    /\ tfPos' = Len(spill)
    /\ ppc' = "tf_exit"
    /\ plog' = Append(plog, [msg |-> "finish uploading a base backup volume",
                             n |-> 0])
    /\ UNCHANGED <<tfState, plState, tarLen, spill, drained, flushed, attempts,
                   putStartPos, errs, retryCxt, pend, pOutKind, pOutExc>>
    /\ UNCHANGED <<dualVars, walVars, keyVars>>

\* only socket errors are screened as retryable
IsRetryable_SocketOnly(e) == e.typ \in {"socket.error", "socket.timeout"}

\* every provider response error is screened as retryable
IsRetryable_AnyResponseError(e) ==
    \/ e.typ \in {"socket.error", "socket.timeout"}
    \/ e.typ = "S3ResponseError"

\* lines 160, 168-169: the errors log_volume_failures_on_error screens as
\* known errors to retry from (socket.timeout is a subclass of socket.error)
IsRetryable(e) ==
    \/ e.typ \in {"socket.error", "socket.timeout"}
    \/ (e.typ = "S3ResponseError" /\ e.code = "RequestTimeTooSkewed")

\* line 183: uri_put_file raises e after reading k more bytes of tf; the
\* environment lets the first MaxAttempts - 1 attempts of a call fail
PutRaise(e, k) ==
    /\ ppc = "in_put"
    /\ tfPos + k <= Len(spill)
    /\ attempts < MaxAttempts
    /\ tfPos' = tfPos + k
    /\ errs' = Append(errs, [err |-> e, pos |-> tfPos + k])
    /\ ppc' = "classify"
    /\ UNCHANGED <<tfState, plState, tarLen, spill, drained, flushed, attempts,
                   putStartPos, retryCxt, uploaded, pend, pOutKind, pOutExc,
                   plog>>
    /\ UNCHANGED <<dualVars, walVars, keyVars>>

LastErr == errs[Len(errs)].err

\* retry_with_count: the count handed to the classifier is the number of
\* failed attempts so far, this one included
CountForClassifier(cxt) == cxt + 1

\* retry: the operation is called again whenever the classifier returned
\* without raising
RetryPosition(classifierRaised) ==
    IF classifierRaised THEN "tf_exit" ELSE "put"

\* lines 163-172: the message the classifier logs for a retryable error
RetryMessage(e) ==
    IF e.typ \in {"socket.error", "socket.timeout"}
      THEN "Retrying send because of a socket error"
      ELSE "Retrying send because of a Request Skew time"

\* the classifier gives up at the second failure of a call: it raises the
\* error then, retryable or not
ClassifyFailure_GivesUpAtSecond ==
    /\ ppc = "classify"
    /\ LET n == CountForClassifier(retryCxt)
       IN IF IsRetryable(LastErr) /\ n < 2
            THEN /\ plog' = Append(plog, [msg |-> RetryMessage(LastErr),
                                          n |-> n])
                 /\ retryCxt' = n
                 /\ ppc' = RetryPosition(FALSE)
                 /\ UNCHANGED pend
            ELSE /\ pend' = LastErr
                 /\ ppc' = RetryPosition(TRUE)
                 /\ UNCHANGED <<plog, retryCxt>>
    /\ UNCHANGED <<tfState, plState, tarLen, spill, tfPos, drained, flushed,
                   attempts, putStartPos, errs, uploaded, pOutKind, pOutExc>>
    /\ UNCHANGED <<dualVars, walVars, keyVars>>

\* lines 149-180: log_volume_failures_on_error, called by the retry wrapper
\* with the error of the failed attempt: a retryable error is logged with
\* the attempt count, any other error is raised again as it is
ClassifyFailure ==
    /\ ppc = "classify"
    /\ LET n == CountForClassifier(retryCxt)
       IN IF IsRetryable(LastErr)
            THEN /\ plog' = Append(plog, [msg |-> RetryMessage(LastErr),
                                          n |-> n])
                 /\ retryCxt' = n
                 /\ ppc' = RetryPosition(FALSE)
                 /\ UNCHANGED pend
            ELSE /\ pend' = LastErr
                 /\ ppc' = RetryPosition(TRUE)
                 /\ UNCHANGED <<plog, retryCxt>>
    /\ UNCHANGED <<tfState, plState, tarLen, spill, tfPos, drained, flushed,
                   attempts, putStartPos, errs, uploaded, pOutKind, pOutExc>>
    /\ UNCHANGED <<dualVars, walVars, keyVars>>

\* the spill file is closed at the end of the normal path only
TempfileExit_NormalPathOnly ==
    /\ ppc = "tf_exit"
    /\ ppc' = "done"
    /\ tfState' = IF pend = NoErr THEN "closed" ELSE tfState
    /\ IF pend = NoErr
         THEN pOutKind' = "returned" /\ UNCHANGED pOutExc
         ELSE pOutKind' = "raised" /\ pOutExc' = pend
    /\ UNCHANGED <<plState, tarLen, spill, tfPos, drained, flushed, attempts,
                   putStartPos, errs, retryCxt, uploaded, pend, plog>>
    /\ UNCHANGED <<dualVars, walVars, keyVars>>

\* the exception on its way out is swallowed when the spill file is closed,
\* and the call returns tpart
TempfileExit_SwallowsError ==
    /\ ppc = "tf_exit"
    /\ ppc' = "done"
    /\ tfState' = "closed"
    /\ pOutKind' = "returned"
    /\ UNCHANGED <<plState, tarLen, spill, tfPos, drained, flushed, attempts,
                   putStartPos, errs, retryCxt, uploaded, pend, pOutExc, plog>>
    /\ UNCHANGED <<dualVars, walVars, keyVars>>

\* lines 133-134, 199: leaving the `with` of the spill file closes (and
\* deletes) it on every path; then the call returns tpart or the pending
\* exception goes to the caller
TempfileExit ==
    /\ ppc = "tf_exit"
    /\ ppc' = "done"
    /\ tfState' = "closed"
    /\ IF pend = NoErr
         THEN pOutKind' = "returned" /\ UNCHANGED pOutExc
         ELSE pOutKind' = "raised" /\ pOutExc' = pend
    /\ UNCHANGED <<plState, tarLen, spill, tfPos, drained, flushed, attempts,
                   putStartPos, errs, retryCxt, uploaded, pend, plog>>
    /\ UNCHANGED <<dualVars, walVars, keyVars>>

NextPart ==
    \/ OpenSpillFile
    \/ PipelineEnter
    \/ \E n \in 0..MaxSpill : \E k \in 0..n : TarfileWriteReturn(n, k)
    \/ \E n \in 0..MaxSpill : \E k \in 0..n : TarfileWriteRaise(n, k)
    \/ \E stageFailed \in BOOLEAN : PipelineExit(stageFailed)
    \/ PipelineExitOnError
    \/ Flush
    \/ PutBegin
    \/ PutReturn
    \/ \E e \in PutErrors : \E k \in 0..MaxSpill : PutRaise(e, k)
    \/ ClassifyFailure
    \/ TempfileExit

(***************************************************************************)
(* Strings are sequences of one-character strings                          *)
(***************************************************************************)
\* one trailing ch is removed, if there is one
Rstrip_OneOnly(str, ch) ==
    IF str # <<>> /\ str[Len(str)] = ch
      THEN SubSeq(str, 1, Len(str) - 1)
      ELSE str

RECURSIVE Rstrip(_, _)
\* lines 35, 144: str.rstrip(ch) removes every trailing ch
Rstrip(str, ch) ==
    IF str # <<>> /\ str[Len(str)] = ch
      THEN Rstrip(SubSeq(str, 1, Len(str) - 1), ch)
      ELSE str

\* storage.CURRENT_VERSION
CURRENT_VERSION == <<"0", "0", "5">>

\* lines 35-37: '{0}/wal_{1}/{2}.lzo'.format(prefix.rstrip('/'), version, name)
WalUrl(prefix, name) ==
    Rstrip(prefix, "/") \o <<"/", "w", "a", "l", "_">> \o CURRENT_VERSION
        \o <<"/">> \o name \o <<".", "l", "z", "o">>

\* the prefixes the layout can be configured with
Prefixes ==
    { <<"s">>, <<"s", "/">>, <<"s", "/", "/">>, <<"s", "/", "b">>,
      <<"s", "/", "b", "/">>, <<"s", "/", "b", "/", "/">>, <<"/">>, <<>> }

\* the names of the segments handed to the uploader
SegmentNames == { <<"A">>, <<"A", "B">>, <<"0", "1", "F">> }

\* what do_lzop_put can return as kib_per_second
Rates == {1, 2}

\* the errors do_lzop_put can raise
TransferErrors == {"IOError", "S3ResponseError"}

NoneValue == [isNone |-> TRUE, rate |-> 0]

(***************************************************************************)
(* WalUploader                                                             *)
(***************************************************************************)
InitWal ==
    /\ wpc = "new"
    /\ wEntry = "none"
    /\ wPrefix = <<>>
    /\ wName = <<>>
    /\ wUrl = <<>>
    /\ wlog = <<>>
    /\ wTransfers = 0
    /\ wRate = 0
    /\ wTransferExc = NoExc
    /\ wOutKind = "none"
    /\ wRet = NoneValue
    /\ wExc = NoExc

\* lines 23-27: __init__ keeps the layout, whose prefix is used for the url
WalUploaderInit(prefix) ==
    /\ wpc = "new"
    /\ wpc' = "ready"
    /\ wPrefix' = prefix
    /\ UNCHANGED <<wEntry, wName, wUrl, wlog, wTransfers, wRate, wTransferExc, wOutKind,
                   wRet, wExc>>
    /\ UNCHANGED <<dualVars, partVars, keyVars>>

\* lines 29-30: __call__ evaluates the bare name upload_to_blobstore, which
\* is neither a local nor a global of the module: NameError, and nothing of
\* the upload runs
WalCall(name) ==
    /\ wpc = "ready"
    /\ wEntry' = "__call__"
    /\ wName' = name
    /\ wpc' = "done"
    /\ wOutKind' = "raised"
    /\ wExc' = "NameError"
    /\ UNCHANGED <<wPrefix, wUrl, wlog, wTransfers, wRate, wTransferExc,
                   wRet>>
    /\ UNCHANGED <<dualVars, partVars, keyVars>>

\* lines 33-46: upload_to_blobstore (called as a method, as WalDualUploader
\* does) computes the url and logs the 'begin' event
UploadToBlobstoreBegin(name) ==
    /\ wpc = "ready"
    /\ wEntry' = "upload_to_blobstore"
    /\ wName' = name
    /\ wUrl' = WalUrl(wPrefix, name)
    /\ wlog' = Append(wlog, [level |-> "info", state |-> "begin",
                             key |-> WalUrl(wPrefix, name), seg |-> name,
                             rate |-> 0])
    /\ wpc' = "begun"
    /\ UNCHANGED <<wPrefix, wTransfers, wRate, wTransferExc, wOutKind, wRet, wExc>>
    /\ UNCHANGED <<dualVars, partVars, keyVars>>

\* line 49: do_lzop_put is called
TransferBegin ==
    /\ wpc = "begun"
    /\ wpc' = "transfer"
    /\ wTransfers' = wTransfers + 1
    /\ UNCHANGED <<wEntry, wPrefix, wName, wUrl, wlog, wRate, wTransferExc, wOutKind, wRet,
                   wExc>>
    /\ UNCHANGED <<dualVars, partVars, keyVars>>

\* the 'complete' event is logged although the transfer raised
TransferRaise_LogsComplete(e) ==
    /\ wpc = "transfer"
    /\ wpc' = "done"
    /\ wlog' = Append(wlog, [level |-> "info", state |-> "complete",
                             key |-> wUrl, seg |-> wName, rate |-> 0])
    /\ wTransferExc' = e
    /\ wOutKind' = "raised"
    /\ wExc' = e
    /\ UNCHANGED <<wEntry, wPrefix, wName, wUrl, wTransfers, wRate, wRet>>
    /\ UNCHANGED <<dualVars, partVars, keyVars>>

\* the transfer's exception is replaced by another one on its way out
TransferRaise_Wrapped(e) ==
    /\ wpc = "transfer"
    /\ wpc' = "done"
    /\ wTransferExc' = e
    /\ wOutKind' = "raised"
    /\ wExc' = "Exception"
    /\ UNCHANGED <<wEntry, wPrefix, wName, wUrl, wlog, wTransfers, wRate,
                   wRet>>
    /\ UNCHANGED <<dualVars, partVars, keyVars>>

\* lines 49-50: do_lzop_put raises e; upload_to_blobstore has no handler, so
\* e leaves it as it is and nothing more is logged
TransferRaise(e) ==
    /\ wpc = "transfer"
    /\ wpc' = "done"
    /\ wTransferExc' = e
    /\ wOutKind' = "raised"
    /\ wExc' = e
    /\ UNCHANGED <<wEntry, wPrefix, wName, wUrl, wlog, wTransfers, wRate,
                   wRet>>
    /\ UNCHANGED <<dualVars, partVars, keyVars>>

\* lines 49-61: do_lzop_put returns the rate, the 'complete' event is logged
\* with it, and the function ends without a return statement: it returns
\* None
TransferReturn(rate) ==
    /\ wpc = "transfer"
    /\ wpc' = "done"
    /\ wRate' = rate
    /\ wlog' = Append(wlog, [level |-> "info", state |-> "complete",
                             key |-> wUrl, seg |-> wName, rate |-> rate])
    /\ wOutKind' = "returned"
    /\ wRet' = NoneValue
    /\ UNCHANGED <<wEntry, wPrefix, wName, wUrl, wTransfers, wTransferExc,
                   wExc>>
    /\ UNCHANGED <<dualVars, partVars, keyVars>>

NextWal ==
    \/ \E prefix \in Prefixes : WalUploaderInit(prefix)
    \/ \E name \in SegmentNames : WalCall(name)
    \/ \E name \in SegmentNames : UploadToBlobstoreBegin(name)
    \/ TransferBegin
    \/ \E e \in TransferErrors : TransferRaise(e)
    \/ \E rate \in Rates : TransferReturn(rate)

(***************************************************************************)
(* The url of a base-backup partition                                      *)
(***************************************************************************)
\* the width of the field in '{number:08d}'
FieldWidth == 8

DigitChars == <<"0", "1", "2", "3", "4", "5", "6", "7", "8", "9">>

RECURSIVE Decimal(_)
\* the decimal digits of n >= 0, as format type 'd' writes them
Decimal(n) ==
    IF n < 10
      THEN <<DigitChars[n + 1]>>
      ELSE Decimal(n \div 10) \o <<DigitChars[(n % 10) + 1]>>

RECURSIVE ZeroPad(_, _)
\* fill '0' and width w: zeros are put in front until the width is reached
ZeroPad(str, w) ==
    IF Len(str) >= w THEN str ELSE ZeroPad(<<"0">> \o str, w)

\* the ordinal is written without padding
FormatOrdinal_NoPadding(n) == Decimal(n)

\* line 143: '{number:08d}'
FormatOrdinal(n) == ZeroPad(Decimal(n), FieldWidth)

\* lines 143-144: '{0}/tar_partitions/part_{number:08d}.tar.lzo'
\*                    .format(backup_prefix.rstrip('/'), number=tpart.name)
PartitionUrl(prefix, n) ==
    Rstrip(prefix, "/")
        \o <<"/", "t", "a", "r", "_", "p", "a", "r", "t", "i", "t", "i", "o",
             "n", "s", "/", "p", "a", "r", "t", "_">>
        \o FormatOrdinal(n)
        \o <<".", "t", "a", "r", ".", "l", "z", "o">>

RECURSIVE Pow10(_)
Pow10(k) == IF k = 0 THEN 1 ELSE 10 * Pow10(k - 1)

\* the largest ordinal that fits the field
MaxOrdinal == Pow10(FieldWidth) - 1

\* the ordinals of the partitions handed to the uploader: the ends of the
\* range, and the numbers around each change of the number of digits
Ordinals ==
    {0, 3, 12345678, MaxOrdinal}
        \cup {Pow10(k) : k \in 1..(FieldWidth - 1)}
        \cup {Pow10(k) - 1 : k \in 1..(FieldWidth - 1)}

InitKey ==
    /\ kpc = "new"
    /\ kPrefix = <<>>
    /\ kOrdinal = 0
    /\ kUrl = <<>>

\* lines 118-123: __init__ keeps backup_prefix
PartitionUploaderInit(prefix) ==
    /\ kpc = "new"
    /\ kpc' = "ready"
    /\ kPrefix' = prefix
    /\ UNCHANGED <<kOrdinal, kUrl>>
    /\ UNCHANGED <<dualVars, partVars, walVars>>

\* lines 143-144: the url of the partition tpart, whose name is n
ComputePartitionUrl(n) ==
    /\ kpc = "ready"
    /\ kpc' = "computed"
    /\ kOrdinal' = n
    /\ kUrl' = PartitionUrl(kPrefix, n)
    /\ UNCHANGED kPrefix
    /\ UNCHANGED <<dualVars, partVars, walVars>>

NextKey ==
    \/ \E prefix \in Prefixes : PartitionUploaderInit(prefix)
    \/ \E n \in Ordinals : ComputePartitionUrl(n)

Init == InitDual /\ InitPart /\ InitWal /\ InitKey

Next == NextDual \/ NextPart \/ NextWal \/ NextKey

SpecDual == Init /\ [][NextDual]_vars

SpecPart == Init /\ [][NextPart]_vars

SpecWal == Init /\ [][NextWal]_vars

SpecKey == Init /\ [][NextKey]_vars

Spec == Init /\ [][Next]_vars

(***************************************************************************)
(* Properties of WalDualUploader.__call__                                  *)
(***************************************************************************)
\* the secondary upload succeeded: the push function returned 0 or EEXIST
SecondarySucceeded(c) ==
    secOutcome[c].kind = "rc" /\ secOutcome[c].rc \in {0, EEXIST}

PrimaryRaised(c) == primOutcome[c] \in Exceptions \cup BaseExceptions

\* C1: by the time a call has ended, upload_to_blobstore and the push
\* function have each been invoked exactly once, whatever the two outcomes.
C1_BothInvokedExactlyOnce ==
    \A c \in Calls :
        mpc[c] = "done" => primaryCalls[c] = 1 /\ secondaryCalls[c] = 1

\* C2: a call that has ended has either returned the segment or raised, and
\* it returned the segment exactly when the primary upload returned and the
\* secondary upload succeeded.
C2_ReturnsIffBothSucceeded ==
    \A c \in Calls :
        mpc[c] = "done" =>
            /\ outKind[c] \in {"returned", "raised"}
            /\ outKind[c] = "returned" <=>
                   (primOutcome[c] = "ok" /\ SecondarySucceeded(c))
            /\ outKind[c] = "raised" => outExc[c] # NoExc

C2_Witness ==
    \E c \in Calls :
        /\ mpc[c] = "done"
        /\ primOutcome[c] = "ok"
        /\ secOutcome[c] = [kind |-> "rc", rc |-> 1]
        /\ outKind[c] = "raised"

\* C3: a call never returns or raises to its caller before its secondary
\* task has finished, however the primary upload ended.
C3_EndsOnlyAfterSecondaryFinished ==
    \A c \in Calls : mpc[c] = "done" => tpc[c] = "finished" /\ joined[c]

C5_SecondaryFlag ==
    \A c \in Calls :
        tpc[c] = "finished" =>
            /\ NfsThreadSuccess(c) <=> SecondarySucceeded(c)
            /\ (mpc[c] = "done" /\ ~SecondarySucceeded(c)) =>
                   /\ outKind[c] = "raised"
                   /\ outExc[c] \in {primOutcome[c], GlusterError}

C5_Witness ==
    \E c \in Calls :
        /\ mpc[c] = "done"
        /\ primOutcome[c] = "ok"
        /\ secOutcome[c].kind = "raise"
        /\ ~NfsThreadSuccess(c)
        /\ outKind[c] = "raised"

(***************************************************************************)
(* Properties of PartitionUploader.__call__                                *)
(***************************************************************************)
SocketErrorTypes == {"socket.error", "socket.timeout"}

\* a failure that is a socket error, or a provider response whose error code
\* is RequestTimeTooSkewed
RetryableFailure(e) ==
    \/ e.typ \in SocketErrorTypes
    \/ (e.typ = "S3ResponseError" /\ e.code = "RequestTimeTooSkewed")

FailedAttempts == 1..Len(errs)

\* C6: a PUT attempt that fails with an error that is neither a socket error
\* nor a RequestTimeTooSkewed response is the last attempt of the call (the
\* only one when it is the first to fail): no attempt follows it, and the
\* same error, type and value, is what the call raises to its caller.
C6_FatalErrorNotRetried ==
    \A i \in FailedAttempts :
        ~RetryableFailure(errs[i].err) =>
            /\ i = Len(errs)
            /\ attempts = i
            /\ ppc \in {"classify", "tf_exit", "done"}
            /\ ppc # "classify" => pend = errs[i].err
            /\ ppc = "done" => pOutKind = "raised" /\ pOutExc = errs[i].err

C6_Witness ==
    /\ ppc = "done"
    /\ attempts = 1
    /\ Len(errs) = 1
    /\ errs[1].err = [typ |-> "S3ResponseError", code |-> "AccessDenied"]
    /\ pOutKind = "raised"
    /\ pOutExc = errs[1].err

\* C7: after a PUT attempt failed with a socket error or a
\* RequestTimeTooSkewed response, the classifier logs the failure with the
\* attempt count and does not raise: the error never becomes the call's
\* pending or raised exception, and the call goes on to a further PUT
\* attempt.
C7_RetryableErrorRetried ==
    \A i \in FailedAttempts :
        RetryableFailure(errs[i].err) =>
            /\ attempts > i \/ ppc \in {"classify", "put"}
            /\ (i < Len(errs) \/ ppc # "classify") =>
                   \E j \in 1..Len(plog) :
                       /\ plog[j].n = i
                       /\ plog[j].msg \in
                              {"Retrying send because of a socket error",
                               "Retrying send because of a Request Skew time"}
            /\ pend # errs[i].err
            /\ pOutExc # errs[i].err

C7_Witness ==
    /\ ppc = "done"
    /\ Len(errs) = 2
    /\ errs[1].err = [typ |-> "S3ResponseError",
                      code |-> "RequestTimeTooSkewed"]
    /\ errs[2].err.typ = "socket.error"
    /\ attempts = 3
    /\ pOutKind = "returned"

\* C8: the spill file's position is 0 at the start of every PUT attempt,
\* also of an attempt that follows a failed one which moved the position,
\* so the attempt that succeeds has read and sent the whole spill file.
C8_RewoundBeforeEveryPut ==
    /\ \A i \in 1..Len(putStartPos) : putStartPos[i] = 0
    /\ Len(putStartPos) = attempts
    /\ (ppc \in {"tf_exit", "done"} /\ pend = NoErr) =>
           uploaded = spill /\ spill = Content(tarLen)

C8_Witness ==
    /\ ppc = "done"
    /\ pOutKind = "returned"
    /\ attempts >= 2
    /\ Len(errs) >= 1
    /\ errs[1].pos > 0
    /\ Len(uploaded) > 0

\* C9: whenever a PUT attempt has started, the tar write has returned, the
\* pipeline's scope has been left with all stages drained into the spill
\* file, and the spill file has been flushed.
C9_PipelineCompleteBeforePut ==
    attempts > 0 =>
        /\ plState = "closed"
        /\ drained
        /\ flushed
        /\ spill = Content(tarLen)
        /\ pend \notin {TarWriteError, PipelineError}

C9_Witness ==
    /\ ppc = "in_put"
    /\ attempts = 1
    /\ tarLen > 0
    /\ plState = "closed"

\* C10: when the call has returned or raised, on whichever path, neither the
\* pipeline nor the spill file is still held.
C10_ResourcesReleased ==
    ppc = "done" =>
        /\ pOutKind \in {"returned", "raised"}
        /\ tfState = "closed"
        /\ plState = "closed"

C10_Witness ==
    /\ ppc = "done"
    /\ pOutKind = "raised"
    /\ pOutExc = TarWriteError
    /\ tfState = "closed"
    /\ plState = "closed"

(***************************************************************************)
(* Properties of WalUploader                                               *)
(***************************************************************************)
EventsOf(st) == {j \in 1..Len(wlog) : wlog[j].state = st}

\* C11: invoking the uploader on a segment (through __call__ or through
\* upload_to_blobstore) makes the transfer of the segment and gives the
\* caller the throughput measured for it, unless the transfer itself raised.
C11_TransfersAndReturnsThroughput ==
    (wpc = "done" /\ wTransferExc = NoExc) =>
        /\ wTransfers = 1
        /\ wOutKind = "returned"
        /\ wRet = [isNone |-> FALSE, rate |-> wRate]

\* C12 as claimed: when the transfer raises, an event at error level is
\* logged by the uploader, then the same exception goes to the caller, and
\* no 'complete' event is emitted.
C12_LoggedAtErrorLevelThenReraised ==
    (wpc = "done" /\ wTransferExc # NoExc) =>
        /\ \E j \in 1..Len(wlog) : wlog[j].level = "error"
        /\ wOutKind = "raised"
        /\ wExc = wTransferExc
        /\ EventsOf("complete") = {}

\* C12 as amended: when the transfer raises, the same exception leaves
\* upload_to_blobstore unchanged and no 'complete' event is emitted; the
\* uploader itself logs nothing at error level, its log ends with 'begin'.
C12_PropagatesUnchangedWithoutLog ==
    (wpc = "done" /\ wTransferExc # NoExc) =>
        /\ wOutKind = "raised"
        /\ wExc = wTransferExc
        /\ EventsOf("complete") = {}
        /\ \A j \in 1..Len(wlog) : wlog[j].level # "error"
        /\ Len(wlog) = 1 /\ wlog[1].state = "begin"

C12_Witness ==
    /\ wpc = "done"
    /\ wTransfers = 1
    /\ wTransferExc = "S3ResponseError"
    /\ wExc = "S3ResponseError"

\* the prefix up to its last character that is not a slash
WithoutTrailingSlashes(prefix) ==
    LET k == CHOOSE k \in 0..Len(prefix) :
                 /\ k = 0 \/ prefix[k] # "/"
                 /\ \A j \in (k + 1)..Len(prefix) : prefix[j] = "/"
    IN SubSeq(prefix, 1, k)

\* the prefix without its last character when that is a slash
WithoutOneTrailingSlash(prefix) ==
    IF Len(prefix) > 0 /\ prefix[Len(prefix)] = "/"
      THEN SubSeq(prefix, 1, Len(prefix) - 1)
      ELSE prefix

WalKeyOf(stripped, name) ==
    stripped \o <<"/", "w", "a", "l", "_">> \o CURRENT_VERSION \o <<"/">>
        \o name \o <<".", "l", "z", "o">>

UrlComputed == wEntry = "upload_to_blobstore"

\* C14 as claimed: the WAL key is {prefix}/wal_{CURRENT_VERSION}/{name}.lzo
\* with one trailing slash taken off the configured prefix.
C14_OneTrailingSlashStripped ==
    UrlComputed => wUrl = WalKeyOf(WithoutOneTrailingSlash(wPrefix), wName)

\* C14 as amended: the WAL key is {prefix}/wal_{CURRENT_VERSION}/{name}.lzo
\* with all the trailing slashes taken off the configured prefix, however
\* many there are.
C14_AllTrailingSlashesStripped ==
    UrlComputed => wUrl = WalKeyOf(WithoutTrailingSlashes(wPrefix), wName)

C14_Witness ==
    /\ UrlComputed
    /\ wPrefix = <<"s", "/", "b", "/", "/">>
    /\ wUrl = <<"s", "/", "b", "/", "w", "a", "l", "_", "0", "0", "5", "/">>
                  \o wName \o <<".", "l", "z", "o">>

\* C19: in upload_to_blobstore the 'begin' event is logged before the
\* transfer starts, a 'complete' event is logged only after the transfer has
\* returned and carries the key and segment name of the 'begin' event (and
\* the measured rate), and a call that has ended made exactly one transfer.
C19_BeginTransferComplete ==
    /\ wTransfers <= 1
    /\ wTransfers > 0 => (wlog # <<>> /\ wlog[1].state = "begin")
    /\ wpc = "begun" => wTransfers = 0
    /\ \A j \in EventsOf("complete") :
           /\ j = 2
           /\ wpc = "done" /\ wOutKind = "returned" /\ wTransferExc = NoExc
           /\ wlog[2].key = wlog[1].key /\ wlog[2].key = wUrl
           /\ wlog[2].seg = wlog[1].seg /\ wlog[2].seg = wName
           /\ wlog[2].rate = wRate
    /\ (wpc = "done" /\ UrlComputed) =>
           /\ wTransfers = 1
           /\ wOutKind = "returned" => EventsOf("complete") = {2}

C19_Witness ==
    /\ wpc = "done"
    /\ wOutKind = "returned"
    /\ wTransfers = 1
    /\ EventsOf("begin") = {1}
    /\ EventsOf("complete") = {2}

(***************************************************************************)
(* Properties of the partition url                                         *)
(***************************************************************************)
PartStem ==
    <<"/", "t", "a", "r", "_", "p", "a", "r", "t", "i", "t", "i", "o", "n",
      "s", "/", "p", "a", "r", "t", "_">>

PartSuffix == <<".", "t", "a", "r", ".", "l", "z", "o">>

DigitValue(ch) == CHOOSE d \in 0..9 : DigitChars[d + 1] = ch

RECURSIVE DecimalValue(_)
\* the number a sequence of digits stands for
DecimalValue(str) ==
    IF str = <<>>
      THEN 0
      ELSE 10 * DecimalValue(SubSeq(str, 1, Len(str) - 1))
               + DigitValue(str[Len(str)])

\* what stands in the url between 'part_' and '.tar.lzo'
NumericField(url, prefix) ==
    SubSeq(url, Len(WithoutTrailingSlashes(prefix)) + Len(PartStem) + 1,
           Len(url) - Len(PartSuffix))

\* C15: for an ordinal n in [0, 99999999] the url is
\* {backup_prefix}/tar_partitions/part_{field}.tar.lzo where the field is
\* exactly 8 digits that read n, so that other ordinals of the range give
\* other urls of the same length.
C15_OrdinalZeroPaddedToEight ==
    kpc = "computed" =>
        LET field == NumericField(kUrl, kPrefix)
        IN /\ kUrl = WithoutTrailingSlashes(kPrefix) \o PartStem \o field
                         \o PartSuffix
           /\ Len(field) = 8
           /\ \A j \in 1..Len(field) :
                  \E d \in 0..9 : DigitChars[d + 1] = field[j]
           /\ DecimalValue(field) = kOrdinal
           /\ \A m \in Ordinals \ {kOrdinal} :
                  /\ PartitionUrl(kPrefix, m) # kUrl
                  /\ Len(PartitionUrl(kPrefix, m)) = Len(kUrl)

C15_Witness ==
    /\ kpc = "computed"
    /\ kOrdinal = 3
    /\ NumericField(kUrl, kPrefix) = <<"0", "0", "0", "0", "0", "0", "0", "3">>

(***************************************************************************)
(* Further properties of PartitionUploader.__call__                        *)
(***************************************************************************)
\* a PUT attempt has returned: the call logged the finish of the upload
PutSucceeded ==
    \E j \in 1..Len(plog) :
        plog[j].msg = "finish uploading a base backup volume"

\* C13: a call that has ended has returned tpart exactly when one of its
\* PUT attempts succeeded; once a PUT has succeeded, after however many
\* retryable failures, nothing but the return of tpart follows.
C13_ReturnsIffPutSucceeded ==
    /\ ppc = "done" => (pOutKind = "returned" <=> PutSucceeded)
    /\ PutSucceeded =>
           /\ ppc \in {"tf_exit", "done"}
           /\ pend = NoErr
           /\ attempts = Len(errs) + 1
           /\ \A i \in FailedAttempts : RetryableFailure(errs[i].err)

C13_Witness ==
    /\ ppc = "done"
    /\ pOutKind = "returned"
    /\ Len(errs) = 2
    /\ attempts = 3

\* C17: the classification does not depend on the number of attempts: after
\* n retryable failures in a row, for every n, the classifier has counted n
\* and raised nothing; a call in which a PUT was attempted ends only by a
\* PUT that succeeded or by an error that is not retryable.
C17_NoBoundFromClassifier ==
    /\ ( /\ ppc # "classify"
         /\ errs # <<>>
         /\ \A i \in FailedAttempts : RetryableFailure(errs[i].err) ) =>
           /\ retryCxt = Len(errs)
           /\ pend = NoErr
           /\ ppc \in {"put", "in_put", "tf_exit", "done"}
    /\ (ppc = "done" /\ attempts > 0) =>
           \/ pOutKind = "returned" /\ PutSucceeded
           \/ pOutKind = "raised" /\ ~RetryableFailure(pOutExc)

C17_Witness ==
    /\ ppc = "in_put"
    /\ retryCxt >= 2
    /\ retryCxt = Len(errs)
    /\ attempts = retryCxt + 1

\* the pipeline's scope has been left without the stages having drained
PipelineFailed ==
    ppc \notin {"idle", "enter_pl", "tar_write", "pl_exit"} /\ ~drained

\* C18: when the pipeline failed (the tar write raised, or a stage ended
\* abnormally), no PUT attempt is made in the call, nothing of the partial
\* spill file is uploaded, and the call ends by raising that failure.
C18_NoPutAfterPipelineFailure ==
    PipelineFailed =>
        /\ attempts = 0
        /\ uploaded = <<>>
        /\ ppc \in {"tf_exit", "done"}
        /\ pend \in {TarWriteError, PipelineError}
        /\ ppc = "done" => pOutKind = "raised" /\ pOutExc = pend

C18_Witness ==
    /\ ppc = "done"
    /\ pOutExc = PipelineError
    /\ Len(spill) > 0
    /\ attempts = 0

(***************************************************************************)
(* Further properties of WalDualUploader.__call__                          *)
(***************************************************************************)
Logged(c, msg) == \E j \in 1..Len(dlog[c]) : dlog[c][j] = msg

\* C16: neither upload waits for the other. The secondary task is started
\* before the primary is attempted; wherever the secondary task stands, the
\* primary can be attempted and can return or fail, and its failure is kept
\* and logged at once; wherever the calling thread stands (also when the
\* primary has failed), the secondary task can go on to its end.
C16_NeitherWaitsForTheOther ==
    \A c \in Calls :
        /\ primaryCalls[c] > 0 => tpc[c] # "new"
        /\ mpc[c] = "primary" => ENABLED PrimaryBegin(c)
        /\ mpc[c] = "in_primary" =>
               /\ ENABLED PrimaryReturn(c)
               /\ \A e \in Exceptions : ENABLED PrimaryRaise(c, e)
        /\ tpc[c] = "started" => ENABLED NfsRunBegin(c)
        /\ tpc[c] = "running" =>
               /\ ENABLED NfsRunRaise(c)
               /\ \A rc \in RetCodes : ENABLED NfsRunReturn(c, rc)
        /\ (primOutcome[c] \in Exceptions /\ mpc[c] = "join") =>
               ex[c] = primOutcome[c] /\ dlog[c] = <<"error:blobstore">>

C16_Witness ==
    \E c, d \in Calls :
        /\ c # d
        /\ mpc[c] = "join" /\ primOutcome[c] \in Exceptions
        /\ tpc[c] = "running"
        /\ dlog[c] = <<"error:blobstore">>
        /\ mpc[d] = "in_primary"
        /\ tpc[d] = "finished" /\ ~SecondarySucceeded(d)

\* C20: the secondary's success flag belongs to one call. The class-level
\* default is never written; a thread object has its own flag only when its
\* own task ended with 0 or EEXIST; the calling thread looks at the flag
\* only when the task has finished; and what a call that joined its task
\* saw is the outcome of its own secondary, whatever other calls did.
C20_FlagPrivateToCall ==
    /\ clsSuccess = FALSE
    /\ \A c \in Calls :
           /\ instHas[c] =>
                  instVal[c] /\ tpc[c] = "finished" /\ SecondarySucceeded(c)
           /\ mpc[c] = "decide" => tpc[c] = "finished"
           /\ (mpc[c] = "done" /\ joined[c]) =>
                  /\ Logged(c, "error:gluster") <=> ~SecondarySucceeded(c)
                  /\ ~SecondarySucceeded(c) => outKind[c] = "raised"

C20_Witness ==
    \E c, d \in Calls :
        /\ c # d
        /\ mpc[c] = "done" /\ outKind[c] = "returned"
        /\ SecondarySucceeded(c)
        /\ mpc[d] = "done" /\ joined[d] /\ primOutcome[d] = "ok"
        /\ secOutcome[d] = [kind |-> "rc", rc |-> 1]
        /\ outExc[d] = GlusterError
        /\ Logged(d, "error:gluster")

=============================================================================
